---- MODULE Spec2Model ----
(***************************************************************************)
(* A model of NoteApp (src/main.py): the document session (text buffer,    *)
(* current_file_path, is_modified, window title), the files it reads and   *)
(* writes, the unsaved-changes gate, and the find engine (Find Next,       *)
(* Highlight All).                                                         *)
(*                                                                         *)
(* Text is a sequence of one-character strings.  The Tk text widget is     *)
(* modelled by what the handlers use of it:                                *)
(*   - its content "1.0".."end-1c" (buffer); get("1.0", END) returns the   *)
(*     content followed by the newline the widget always keeps at the end; *)
(*   - its modified flag (edit_modified): every insert or delete that      *)
(*     changes the text raises it; each change of the flag queues one      *)
(*     <<Modified>> virtual event (Tk 8.6 queues it at the tail of the     *)
(*     event queue, so it is dispatched by the main loop after the handler *)
(*     that changed the text has returned);                                *)
(*   - search(pattern, start, stopindex, nocase): the first match whose    *)
(*     START lies in [start, stop); the match may extend past stop (Tk     *)
(*     checks the limits against the start of the match unless             *)
(*     -strictlimits is given, and the handlers do not give it).           *)
(***************************************************************************)
EXTENDS Integers, Sequences, FiniteSets, TLC

VARIABLES
    buffer,             \* text_area content, "1.0" .. "end-1c"
    current_file_path,  \* self.current_file_path; None is the empty path
    is_modified,        \* self.is_modified
    title,              \* root.title(): [filename, marker]
    edit_modified,      \* the text widget's modified flag
    pendingModified,    \* <<Modified>> events queued and not yet dispatched
    fs,                 \* the files: path -> [exists, content]
    destroyed,          \* root.destroy() was called
    insert,             \* the insert mark (caret), an offset into buffer
    sel,                \* the "sel" tag: <<>> or <<start, end>>
    find_var,           \* the Find dialog's entry text (<<>> before it opens)
    find_match,         \* offsets of the characters tagged "find_match"
    last,               \* trace of the last step: what ran and how it ended
    lastSynced,         \* buffer as of the last successful New / Open / Save
    eventFrom,          \* which handler raised the modified flag now set
    findTrace           \* trace of Find Next calls since the caret was placed

vars == <<buffer, current_file_path, is_modified, title, edit_modified,
          pendingModified, fs, destroyed, insert, sel, find_var, find_match,
          last, lastSynced, eventFrom, findTrace>>

(***************************************************************************)
(* Bounds and input sets                                                   *)
(***************************************************************************)
MaxLen == 1         \* the user types only while the buffer is shorter

NL == "\n"
Chars == {"a", NL}  \* what the user types in the session specification

None == <<>>        \* current_file_path = None; also a cancelled picker ("")
PathA == <<"notes", "a.txt">>
PathB == <<"notes", "b.md">>
Paths == {PathA, PathB}

NoFile == [exists |-> FALSE, content |-> <<>>]
File(c) == [exists |-> TRUE, content |-> c]
InitFiles == {NoFile, File(<<"a", NL, NL>>)}

Responses == {"yes", "no", "cancel"}            \* askyesnocancel: True, False, None
IoOutcomes == {"ok", "open_fails", "write_fails"}  \* of open(path, "w") and write

NoTrace == [op |-> "init", gate |-> "none", prompt |-> "none", save |-> "none",
            savePath |-> <<>>, open |-> "none", atRead |-> <<>>,
            atPick |-> <<>>, error |-> "none", eventFrom |-> "none"]
NoFindTrace == [calls |-> 0, start |-> 0, returned |-> {}, lastMatch |-> <<>>,
                tagAdds |-> <<>>, iters |-> 0,
                hlRunning |-> FALSE, hlStart |-> 0]

(***************************************************************************)
(* The application state as one record, so that the handlers are operators *)
(* from state to state.                                                    *)
(***************************************************************************)
App == [buffer |-> buffer, current_file_path |-> current_file_path,
        is_modified |-> is_modified, title |-> title,
        edit_modified |-> edit_modified, pendingModified |-> pendingModified,
        fs |-> fs, destroyed |-> destroyed, insert |-> insert, sel |-> sel,
        find_match |-> find_match, eventFrom |-> eventFrom,
        error |-> "none"]      \* the messagebox.showerror of this handler

Commit(s) ==
    /\ buffer' = s.buffer
    /\ current_file_path' = s.current_file_path
    /\ is_modified' = s.is_modified
    /\ title' = s.title
    /\ edit_modified' = s.edit_modified
    /\ pendingModified' = s.pendingModified
    /\ fs' = s.fs
    /\ destroyed' = s.destroyed
    /\ insert' = s.insert
    /\ sel' = s.sel
    /\ find_match' = s.find_match
    /\ eventFrom' = s.eventFrom

(***************************************************************************)
(* Pure helpers                                                            *)
(***************************************************************************)
RECURSIVE Rstrip(_)
\* str.rstrip("\n")
Rstrip(s) ==
    IF s = <<>> THEN <<>>
    ELSE IF s[Len(s)] = NL THEN Rstrip(SubSeq(s, 1, Len(s) - 1))
    ELSE s

\* text_area.get("1.0", tk.END): the content and the widget's final newline
TextGet(buf) == buf \o <<NL>>

\* a save that writes the widget's text as it is, without rstrip
SavedContent_unstripped(buf) == TextGet(buf)

\* what save_file writes: content.rstrip("\n") then "\n"
SavedContent(buf) == Rstrip(TextGet(buf)) \o <<NL>>

\* os.path.basename
Basename(p) == p[Len(p)]

\* the widget's modified flag after a change of the text: raised, and one
\* <<Modified>> event queued when the flag changes
TextChanged(s, who) ==
    IF s.edit_modified THEN s
    ELSE [s EXCEPT !.edit_modified = TRUE,
                   !.pendingModified = @ + 1,
                   !.eventFrom = who]

\* text_area.delete("1.0", tk.END): nothing happens on an empty widget
TextDeleteAll(s, who) ==
    IF s.buffer = <<>> THEN s
    ELSE TextChanged([s EXCEPT !.buffer = <<>>, !.insert = 0, !.sel = <<>>,
                               !.find_match = {}], who)

\* text_area.insert("1.0", content) into the emptied widget: an empty string
\* inserts nothing; the insert mark ends after the inserted text
TextInsert(s, content, who) ==
    IF content = <<>> THEN s
    ELSE TextChanged([s EXCEPT !.buffer = content \o @,
                               !.insert = @ + Len(content)], who)

\* edit_modified(False): lowers the flag; a change of the flag queues an event
ClearEditModified(s) ==
    IF s.edit_modified
    THEN [s EXCEPT !.edit_modified = FALSE, !.pendingModified = @ + 1,
                   !.eventFrom = "none"]
    ELSE s

\* _clear_find_highlights
clear_find_highlights(s) == [s EXCEPT !.find_match = {}]

\* _update_window_title
update_window_title(s) ==
    [s EXCEPT !.title =
        [filename |-> IF s.current_file_path # None
                      THEN Basename(s.current_file_path) ELSE "Untitled",
         marker |-> IF s.is_modified THEN "*" ELSE ""]]

(***************************************************************************)
(* Handlers.  Each returns [s, ret, ...]: the state it leaves, its return  *)
(* value and, for the trace, how its dialogs and file operations ended.    *)
(* pick is what the Save As picker returns, io how the write ends.         *)
(***************************************************************************)
RECURSIVE save_file(_, _, _), save_file_as(_, _, _)

\* the file after open(path, "w") and the two writes
Written(s, io) ==
    IF io = "ok" THEN File(SavedContent(s.buffer))
    ELSE IF io = "write_fails" THEN File(<<>>)      \* truncated by open()
    ELSE s.fs[s.current_file_path]                  \* open() itself failed

save_file(s, pick, io) ==
    IF s.current_file_path = None THEN save_file_as(s, pick, io)
    ELSE LET w == [s EXCEPT !.fs[s.current_file_path] = Written(s, io)]
         IN IF io # "ok"
            THEN [s |-> [w EXCEPT !.error = "Save Failed"], ret |-> FALSE,
                  save |-> "failed", savePath |-> s.current_file_path]
            ELSE [s |-> update_window_title([w EXCEPT !.is_modified = FALSE]),
                  ret |-> TRUE, save |-> "ok", savePath |-> s.current_file_path]

\* a save_file_as that stores the picker's answer before it looks at it
save_file_as_assigning_first(s, pick, io) ==
    IF pick = None
    THEN [s |-> [s EXCEPT !.current_file_path = pick], ret |-> FALSE,
          save |-> "cancelled", savePath |-> None]
    ELSE save_file([s EXCEPT !.current_file_path = pick], pick, io)

save_file_as(s, pick, io) ==
    IF pick = None
    THEN [s |-> s, ret |-> FALSE, save |-> "cancelled", savePath |-> None]
    ELSE save_file([s EXCEPT !.current_file_path = pick], pick, io)

\* a gate that saves on "yes" and lets the action through whatever the save
\* returned
maybe_save_changes_ignoring_save(s, resp, pick, io) ==
    IF ~s.is_modified
    THEN [s |-> s, ret |-> TRUE, prompt |-> "none", save |-> "none",
          savePath |-> None]
    ELSE IF resp = "cancel"
    THEN [s |-> s, ret |-> FALSE, prompt |-> "cancel", save |-> "none",
          savePath |-> None]
    ELSE IF resp = "yes"
    THEN LET r == save_file(s, pick, io)
         IN [s |-> r.s, ret |-> TRUE, prompt |-> "save", save |-> r.save,
             savePath |-> r.savePath]
    ELSE [s |-> s, ret |-> TRUE, prompt |-> "discard", save |-> "none",
          savePath |-> None]

maybe_save_changes(s, resp, pick, io) ==
    IF ~s.is_modified
    THEN [s |-> s, ret |-> TRUE, prompt |-> "none", save |-> "none",
          savePath |-> None]
    ELSE IF resp = "cancel"
    THEN [s |-> s, ret |-> FALSE, prompt |-> "cancel", save |-> "none",
          savePath |-> None]
    ELSE IF resp = "yes"
    THEN LET r == save_file(s, pick, io)
         IN [s |-> r.s, ret |-> r.ret, prompt |-> "save", save |-> r.save,
             savePath |-> r.savePath]
    ELSE [s |-> s, ret |-> TRUE, prompt |-> "discard", save |-> "none",
          savePath |-> None]

\* new_file after the gate let it through
NewDocument(s) ==
    LET d == TextDeleteAll(s, "new")
        n == [d EXCEPT !.current_file_path = None, !.is_modified = FALSE]
    IN clear_find_highlights(update_window_title(n))

new_file(s, resp, pick, io) ==
    LET g == maybe_save_changes(s, resp, pick, io)
    IN IF ~g.ret THEN g ELSE [g EXCEPT !.s = NewDocument(g.s)]

\* open_file after a successful read of content from file_path
LoadDocument(s, file_path, content) ==
    LET d == TextDeleteAll(s, "open")
        i == TextInsert(d, content, "open")
        n == [i EXCEPT !.current_file_path = file_path, !.is_modified = FALSE]
    IN update_window_title(clear_find_highlights(n))

\* an open_file that empties the widget before it tries to read the file
open_file_clearing_first(s, resp, pick, io, file_path, readable) ==
    LET g == maybe_save_changes(s, resp, pick, io)
        base == [s |-> g.s, ret |-> g.ret, prompt |-> g.prompt, save |-> g.save,
                 savePath |-> g.savePath, open |-> "none", atRead |-> <<>>,
                 atPick |-> <<>>]
        snap == <<[buffer |-> g.s.buffer,
                   current_file_path |-> g.s.current_file_path,
                   is_modified |-> g.s.is_modified]>>
        shown == <<[buffer |-> g.s.buffer,
                    current_file_path |-> g.s.current_file_path,
                    is_modified |-> g.s.is_modified, fs |-> g.s.fs]>>
    IN IF ~g.ret THEN base
       ELSE IF file_path = None
       THEN [base EXCEPT !.open = "cancelled", !.atPick = shown]
       ELSE IF ~(readable /\ g.s.fs[file_path].exists)
       THEN [base EXCEPT !.open = "failed", !.atRead = snap,
                         !.s = [TextDeleteAll(g.s, "open") EXCEPT
                                   !.error = "Open Failed"]]
       ELSE [base EXCEPT !.open = "ok", !.atRead = snap,
                         !.s = LoadDocument(g.s, file_path,
                                            g.s.fs[file_path].content)]

\* file_path is what the Open picker returns; readable says whether open()
\* and read() succeed (a missing file never does)
open_file(s, resp, pick, io, file_path, readable) ==
    LET g == maybe_save_changes(s, resp, pick, io)
        base == [s |-> g.s, ret |-> g.ret, prompt |-> g.prompt, save |-> g.save,
                 savePath |-> g.savePath, open |-> "none", atRead |-> <<>>,
                 atPick |-> <<>>]
        snap == <<[buffer |-> g.s.buffer,
                   current_file_path |-> g.s.current_file_path,
                   is_modified |-> g.s.is_modified]>>
        shown == <<[buffer |-> g.s.buffer,
                    current_file_path |-> g.s.current_file_path,
                    is_modified |-> g.s.is_modified, fs |-> g.s.fs]>>
    IN IF ~g.ret THEN base
       ELSE IF file_path = None
       THEN [base EXCEPT !.open = "cancelled", !.atPick = shown]
       ELSE IF ~(readable /\ g.s.fs[file_path].exists)
       THEN [base EXCEPT !.open = "failed", !.atRead = snap,
                         !.s = [g.s EXCEPT !.error = "Open Failed"]]
       ELSE [base EXCEPT !.open = "ok", !.atRead = snap,
                         !.s = LoadDocument(g.s, file_path,
                                            g.s.fs[file_path].content)]

on_exit(s, resp, pick, io) ==
    LET g == maybe_save_changes(s, resp, pick, io)
    IN IF ~g.ret THEN g ELSE [g EXCEPT !.s = [g.s EXCEPT !.destroyed = TRUE]]

\* a handler that lowers the widget's flag and forgets to set is_modified
on_text_modified_unmarked(s) ==
    IF s.edit_modified THEN ClearEditModified(s) ELSE s

\* _on_text_modified
on_text_modified(s) ==
    IF s.edit_modified
    THEN ClearEditModified(update_window_title([s EXCEPT !.is_modified = TRUE]))
    ELSE s

(***************************************************************************)
(* The session specification                                               *)
(***************************************************************************)
Init ==
    /\ buffer = <<>>
    /\ current_file_path = None
    /\ is_modified = FALSE
    /\ title = [filename |-> "Untitled", marker |-> ""]
    /\ edit_modified = FALSE
    /\ pendingModified = 0
    /\ fs \in [Paths -> InitFiles]
    /\ destroyed = FALSE
    /\ insert = 0
    /\ sel = <<>>
    /\ find_var = <<>>
    /\ find_match = {}
    /\ last = NoTrace
    /\ lastSynced = <<>>
    /\ eventFrom = "none"
    /\ findTrace = NoFindTrace

\* The main loop takes the next user action once the queued events are
\* dispatched, and none after the window is destroyed.
Idle == ~destroyed /\ pendingModified = 0

FindUnchanged == UNCHANGED <<find_var, findTrace>>

\* The answers the dialogs of save_file can take in state s: the Save As
\* picker is shown only when no path is set, and the write is attempted only
\* with a path.
SaveInputs(s) ==
    IF s.current_file_path # None
    THEN {<<None, io>> : io \in IoOutcomes}
    ELSE {<<None, "ok">>} \cup (Paths \X IoOutcomes)

\* The answers the dialogs of save_file_as can take.
SaveAsInputs == {<<None, "ok">>} \cup (Paths \X IoOutcomes)

\* The answers the dialogs of maybe_save_changes can take in state s: the
\* prompt is shown only when is_modified, and only "yes" goes on to save.
GateInputs(s) ==
    IF ~s.is_modified THEN {<<"no", None, "ok">>}
    ELSE {<<"cancel", None, "ok">>, <<"no", None, "ok">>}
         \cup {<<"yes", x[1], x[2]>> : x \in SaveInputs(s)}

\* What the Open picker and the read can give: cancelled, or a path that
\* reads or fails to.
OpenInputs == {<<None, FALSE>>} \cup (Paths \X BOOLEAN)

\* The user types a character at the caret.
TypeChar ==
    /\ Idle
    /\ Len(buffer) < MaxLen
    /\ \E c \in Chars :
         Commit(TextChanged(
            [App EXCEPT !.buffer = SubSeq(buffer, 1, insert) \o <<c>>
                                   \o SubSeq(buffer, insert + 1, Len(buffer)),
                        !.insert = insert + 1], "edit"))
    /\ last' = [NoTrace EXCEPT !.op = "edit"]
    /\ UNCHANGED lastSynced
    /\ FindUnchanged

\* The user deletes the character before the caret.
BackSpace ==
    /\ Idle
    /\ insert > 0
    /\ Commit(TextChanged(
            [App EXCEPT !.buffer = SubSeq(buffer, 1, insert - 1)
                                   \o SubSeq(buffer, insert + 1, Len(buffer)),
                        !.insert = insert - 1], "edit"))
    /\ last' = [NoTrace EXCEPT !.op = "edit"]
    /\ UNCHANGED lastSynced
    /\ FindUnchanged

\* The main loop dispatches a queued <<Modified>> event.
OnTextModified ==
    /\ ~destroyed
    /\ pendingModified > 0
    /\ Commit(on_text_modified([App EXCEPT !.pendingModified = @ - 1]))
    /\ last' = [NoTrace EXCEPT !.op = "modified_event", !.eventFrom = eventFrom]
    /\ UNCHANGED lastSynced
    /\ FindUnchanged

NewFile ==
    /\ Idle
    /\ \E g \in GateInputs(App) :
         LET r == new_file(App, g[1], g[2], g[3])
         IN /\ Commit(r.s)
            /\ last' = [NoTrace EXCEPT !.op = "new",
                          !.gate = IF r.ret THEN "true" ELSE "false",
                          !.prompt = r.prompt, !.save = r.save,
                          !.savePath = r.savePath, !.error = r.s.error]
            /\ lastSynced' = IF r.ret \/ r.save = "ok" THEN r.s.buffer
                             ELSE lastSynced
    /\ FindUnchanged

OpenFile ==
    /\ Idle
    /\ \E g \in GateInputs(App), o \in OpenInputs :
         LET r == open_file(App, g[1], g[2], g[3], o[1], o[2])
         IN /\ Commit(r.s)
            /\ last' = [NoTrace EXCEPT !.op = "open",
                          !.gate = IF r.ret THEN "true" ELSE "false",
                          !.prompt = r.prompt, !.save = r.save,
                          !.savePath = r.savePath,
                          !.open = r.open, !.atRead = r.atRead,
                          !.atPick = r.atPick, !.error = r.s.error]
            /\ lastSynced' = IF r.open = "ok" \/ r.save = "ok" THEN r.s.buffer
                             ELSE lastSynced
    /\ FindUnchanged

SaveFile ==
    /\ Idle
    /\ \E x \in SaveInputs(App) :
         LET r == save_file(App, x[1], x[2])
         IN /\ Commit(r.s)
            /\ last' = [NoTrace EXCEPT !.op = "save", !.save = r.save,
                                         !.savePath = r.savePath,
                                         !.error = r.s.error]
            /\ lastSynced' = IF r.ret THEN r.s.buffer ELSE lastSynced
    /\ FindUnchanged

SaveFileAs ==
    /\ Idle
    /\ \E x \in SaveAsInputs :
         LET r == save_file_as(App, x[1], x[2])
         IN /\ Commit(r.s)
            /\ last' = [NoTrace EXCEPT !.op = "save_as", !.save = r.save,
                                         !.savePath = r.savePath,
                                         !.error = r.s.error]
            /\ lastSynced' = IF r.ret THEN r.s.buffer ELSE lastSynced
    /\ FindUnchanged

OnExit ==
    /\ Idle
    /\ \E g \in GateInputs(App) :
         LET r == on_exit(App, g[1], g[2], g[3])
         IN /\ Commit(r.s)
            /\ last' = [NoTrace EXCEPT !.op = "exit",
                          !.gate = IF r.ret THEN "true" ELSE "false",
                          !.prompt = r.prompt, !.save = r.save,
                          !.savePath = r.savePath, !.error = r.s.error]
            /\ lastSynced' = IF r.save = "ok" THEN r.s.buffer ELSE lastSynced
    /\ FindUnchanged

Next ==
    \/ TypeChar
    \/ BackSpace
    \/ OnTextModified
    \/ NewFile
    \/ OpenFile
    \/ SaveFile
    \/ SaveFileAs
    \/ OnExit

Spec == Init /\ [][Next]_vars

TypeOK ==
    /\ is_modified \in BOOLEAN
    /\ edit_modified \in BOOLEAN
    /\ pendingModified \in 0..2
    /\ current_file_path \in Paths \cup {None}
    /\ insert \in 0..Len(buffer)

(***************************************************************************)
(* The find engine                                                         *)
(***************************************************************************)
MaxFindLen == 3     \* longest buffer the find specifications draw
MaxPat == 2         \* longest text typed into the Find entry

FindChars == {"a", "A", "b"}
PatternChars == {"a", "A", " "}
SeqsUpTo(S, n) == UNION {[1..k -> S] : k \in 0..n}

CatBatCat == <<"c", "a", "t", " ", "b", "a", "t", " ", "c", "a", "t">>
Cat == <<"c", "a", "t">>
FindBuffers == SeqsUpTo(FindChars, MaxFindLen) \cup {CatBatCat}
FindEntries == SeqsUpTo(PatternChars, MaxPat) \cup {Cat}

IsSpace(c) == c \in {" ", NL, "\t"}

RECURSIVE Lstrip(_)
Lstrip(s) ==
    IF s = <<>> THEN <<>>
    ELSE IF IsSpace(s[1]) THEN Lstrip(SubSeq(s, 2, Len(s)))
    ELSE s

RECURSIVE RstripSpace(_)
RstripSpace(s) ==
    IF s = <<>> THEN <<>>
    ELSE IF IsSpace(s[Len(s)]) THEN RstripSpace(SubSeq(s, 1, Len(s) - 1))
    ELSE s

\* str.strip()
Strip(s) == RstripSpace(Lstrip(s))

\* nocase: Tk lower-cases the pattern and the text it searches
Lower(c) == IF c = "A" THEN "a" ELSE c
LowerSeq(s) == [i \in 1..Len(s) |-> Lower(s[i])]

\* whether pat matches text at offset i (0-based), ignoring case
MatchAt(text, pat, i) ==
    /\ i + Len(pat) <= Len(text)
    /\ LowerSeq(SubSeq(text, i + 1, i + Len(pat))) = LowerSeq(pat)

RECURSIVE Search_strict(_, _, _, _)
\* a forward search that wants the whole match before stop (-strictlimits)
Search_strict(text, pat, start, stop) ==
    IF start >= stop \/ start + Len(pat) > stop THEN <<>>
    ELSE IF MatchAt(text, pat, start) THEN <<start>>
    ELSE Search_strict(text, pat, start + 1, stop)

RECURSIVE Search(_, _, _, _)
\* text_area.search(pat, start, stopindex=stop, nocase=True): <<i>> for the
\* first match that starts at an offset i in [start, stop), <<>> for none
Search(text, pat, start, stop) ==
    IF start >= stop \/ start + Len(pat) > Len(text) THEN <<>>
    ELSE IF MatchAt(text, pat, start) THEN <<start>>
    ELSE Search(text, pat, start + 1, stop)

\* tk.END as an offset into the widget's text
End(buf) == Len(TextGet(buf))

\* a Find Next that leaves the caret at the start of the match
SelectMatch_caret_at_start(s, m, n) ==
    [s EXCEPT !.sel = <<m, m + n>>, !.insert = m]

\* the end of _find_next: select the match, put the caret at its end
SelectMatch(s, m, n) == [s EXCEPT !.sel = <<m, m + n>>, !.insert = m + n]

\* _find_next: [s, match], match = <<>> when nothing was selected
find_next(s, entry) ==
    LET pattern == Strip(entry)
        start_index == s.insert
        match_index == Search(TextGet(s.buffer), pattern, start_index,
                              End(s.buffer))
        wrap_index == Search(TextGet(s.buffer), pattern, 0, start_index)
    IN IF pattern = <<>> THEN [s |-> s, match |-> <<>>]
       ELSE IF match_index # <<>>
       THEN [s |-> SelectMatch(s, match_index[1], Len(pattern)),
             match |-> match_index]
       ELSE IF wrap_index # <<>>
       THEN [s |-> SelectMatch(s, wrap_index[1], Len(pattern)),
             match |-> wrap_index]
       ELSE [s |-> s, match |-> <<>>]

\* where the loop of _highlight_all searches next after a match at m
NextStart_overlapping(m, n) == m + 1

\* a loop that searches on from the start of the match it just tagged
NextStart_at_match(m, n) == m

NextStart(m, n) == m + n

RECURSIVE HighlightLoop(_, _, _, _)
\* the loop of _highlight_all: the ranges passed to tag_add, in order
HighlightLoop(text, pattern, start, added) ==
    LET match_index == Search(text, pattern, start, Len(text))
    IN IF match_index = <<>> THEN added
       ELSE HighlightLoop(text, pattern,
                          NextStart(match_index[1], Len(pattern)),
                          Append(added, <<match_index[1],
                                          match_index[1] + Len(pattern)>>))

\* the characters tagged by tag_add over the ranges
Tagged(ranges) ==
    UNION {r[1]..(r[2] - 1) : r \in {ranges[i] : i \in 1..Len(ranges)}}

\* _highlight_all: [s, tagAdds, iters], iters the searches the loop ran
highlight_all(s, entry) ==
    LET pattern == Strip(entry)
        ranges == HighlightLoop(TextGet(s.buffer), pattern, 0, <<>>)
    IN IF pattern = <<>> THEN [s |-> s, tagAdds |-> <<>>, iters |-> 0]
       ELSE [s |-> [clear_find_highlights(s) EXCEPT
                        !.find_match = @ \cup Tagged(ranges)],
             tagAdds |-> ranges, iters |-> Len(ranges) + 1]

\* The state after the user typed a text into a new document and opened the
\* Find dialog.
FindInit ==
    /\ buffer \in FindBuffers
    /\ current_file_path = None
    /\ is_modified = (buffer # <<>>)
    /\ title = [filename |-> "Untitled",
                marker |-> IF buffer # <<>> THEN "*" ELSE ""]
    /\ edit_modified = FALSE
    /\ pendingModified = 0
    /\ fs = [p \in Paths |-> NoFile]
    /\ destroyed = FALSE
    /\ insert = Len(buffer)
    /\ sel = <<>>
    /\ find_match = {}
    /\ last = NoTrace
    /\ lastSynced = <<>>
    /\ eventFrom = "none"
    /\ findTrace = [NoFindTrace EXCEPT !.start = Len(buffer)]

SessionUnchanged ==
    UNCHANGED <<buffer, current_file_path, is_modified, title, edit_modified,
                pendingModified, fs, destroyed, lastSynced, eventFrom>>

\* The user types a text into the Find entry.
TypePattern ==
    /\ \E e \in FindEntries : e # find_var /\ find_var' = e
    /\ last' = [NoTrace EXCEPT !.op = "type_pattern"]
    /\ findTrace' = [NoFindTrace EXCEPT !.start = insert]
    /\ SessionUnchanged
    /\ UNCHANGED <<insert, sel, find_match>>

\* The user clicks into the text: the caret moves, the selection goes.
MoveCaret ==
    /\ \E i \in 0..Len(buffer) : insert' = i
    /\ sel' = <<>>
    /\ last' = [NoTrace EXCEPT !.op = "move_caret"]
    /\ findTrace' = [NoFindTrace EXCEPT !.start = insert']
    /\ SessionUnchanged
    /\ UNCHANGED <<find_var, find_match>>

\* Find Next; the trace counts the calls up to the buffer's length plus two.
FindNext ==
    /\ findTrace.calls < Len(buffer) + 2
    /\ LET r == find_next(App, find_var)
       IN /\ insert' = r.s.insert
          /\ sel' = r.s.sel
          /\ findTrace' = [findTrace EXCEPT
                             !.calls = @ + 1,
                             !.returned = @ \cup {r.match[i] : i \in 1..Len(r.match)},
                             !.lastMatch = r.match]
    /\ last' = [NoTrace EXCEPT !.op = "find_next"]
    /\ SessionUnchanged
    /\ UNCHANGED <<find_var, find_match>>

\* Highlight All
HighlightAll ==
    /\ LET r == highlight_all(App, find_var)
       IN /\ find_match' = r.s.find_match
          /\ findTrace' = [findTrace EXCEPT !.tagAdds = r.tagAdds,
                                            !.iters = r.iters]
    /\ last' = [NoTrace EXCEPT !.op = "highlight_all"]
    /\ SessionUnchanged
    /\ UNCHANGED <<find_var, insert, sel>>

\* Clear
ClearFindHighlights ==
    /\ find_match' = clear_find_highlights(App).find_match
    /\ last' = [NoTrace EXCEPT !.op = "clear"]
    /\ findTrace' = [findTrace EXCEPT !.tagAdds = <<>>, !.iters = 0]
    /\ SessionUnchanged
    /\ UNCHANGED <<find_var, insert, sel>>

\* Find Next over every buffer, entry text and caret position.  Highlight
\* All neither reads nor writes the caret and the selection, and Find Next
\* neither reads nor writes the find_match tag, so each has its own
\* specification.
FindNextInit == FindInit /\ find_var \in FindEntries
FindNextStep == MoveCaret \/ FindNext
FindNextSpec == FindNextInit /\ [][FindNextStep]_vars

HighlightInit == FindInit /\ find_var = <<>>
HighlightStep == TypePattern \/ HighlightAll \/ ClearFindHighlights
HighlightSpec == HighlightInit /\ [][HighlightStep]_vars

\* The loop of _highlight_all taken one iteration at a time: hlStart is the
\* local variable start, hlRunning says that the handler is inside the loop.
\* HighlightBegin is the handler up to the loop.
HighlightBegin ==
    /\ ~findTrace.hlRunning
    /\ LET pattern == Strip(find_var)
       IN IF pattern = <<>>
          THEN /\ UNCHANGED find_match
               /\ findTrace' = [findTrace EXCEPT !.tagAdds = <<>>, !.iters = 0]
          ELSE /\ find_match' = clear_find_highlights(App).find_match
               /\ findTrace' = [findTrace EXCEPT !.tagAdds = <<>>, !.iters = 0,
                                                 !.hlRunning = TRUE,
                                                 !.hlStart = 0]
    /\ last' = [NoTrace EXCEPT !.op = "highlight_begin"]
    /\ SessionUnchanged
    /\ UNCHANGED <<find_var, insert, sel>>

\* One iteration: search from start; stop on no match, else tag the match
\* and move start to its end.
HighlightIter ==
    /\ findTrace.hlRunning
    /\ LET pattern == Strip(find_var)
           text == TextGet(buffer)
           match_index == Search(text, pattern, findTrace.hlStart, Len(text))
       IN IF match_index = <<>>
          THEN /\ UNCHANGED find_match
               /\ findTrace' = [findTrace EXCEPT !.iters = @ + 1,
                                                 !.hlRunning = FALSE]
          ELSE LET m == match_index[1]
                   end_index == m + Len(pattern)
               IN /\ find_match' = find_match \cup Tagged(<< <<m, end_index>> >>)
                  /\ findTrace' = [findTrace EXCEPT
                                     !.iters = @ + 1,
                                     !.tagAdds = Append(@, <<m, end_index>>),
                                     !.hlStart = NextStart(m, Len(pattern))]
    /\ last' = [NoTrace EXCEPT !.op = "highlight_iter"]
    /\ SessionUnchanged
    /\ UNCHANGED <<find_var, insert, sel>>

\* The entry is typed into only between two runs of the handler.
TypePatternIdle == ~findTrace.hlRunning /\ TypePattern

HighlightLoopStep == TypePatternIdle \/ HighlightBegin \/ HighlightIter
HighlightLoopSpec == HighlightInit /\ [][HighlightLoopStep]_vars

(***************************************************************************)
(* Claims about the session                                                *)
(***************************************************************************)
Quiescent == pendingModified = 0

Session == [buffer |-> buffer, current_file_path |-> current_file_path,
            is_modified |-> is_modified]

\* C1 as stated: in every state with no event pending, is_modified is true
\* if and only if the buffer differs from the content last loaded or saved.
C1_ModifiedIffDiffers ==
    Quiescent => (is_modified <=> buffer # lastSynced)

\* C1 as amended: in every state with no <<Modified>> event pending, if the
\* buffer differs from what it held at the last successful New, Open or Save
\* (empty at startup), then is_modified is true.
C1_DiffersImpliesModified ==
    Quiescent => (buffer # lastSynced => is_modified)

C1_Witness ==
    /\ Quiescent
    /\ current_file_path # None
    /\ buffer # lastSynced
    /\ is_modified

\* C2: a save that fails with an I/O error leaves buffer, current_file_path
\* and is_modified as they were before the save was requested.
C2_FailedSaveLeavesState ==
    [][last'.save = "failed"
         => UNCHANGED <<buffer, current_file_path, is_modified>>]_vars

\* C3: when the read of the path picked in Open fails, buffer,
\* current_file_path and is_modified are what they were immediately before
\* the read.
C3_FailedReadLeavesState ==
    (last.op = "open" /\ last.open = "failed") => last.atRead = <<Session>>

C3_Witness ==
    /\ last.op = "open"
    /\ last.open = "failed"
    /\ buffer # <<>>
    /\ is_modified

\* C4: a successful Open replaces the buffer with the file's content, sets
\* current_file_path to the picked path and leaves is_modified false, and
\* the <<Modified>> event raised by Open's own delete/insert does not make
\* the session Dirty.
C4_OpenLeavesClean ==
    /\ (last.op = "open" /\ last.open = "ok")
          => /\ ~is_modified
             /\ current_file_path # None
             /\ buffer = fs[current_file_path].content
    /\ (last.op = "modified_event" /\ last.eventFrom = "open") => ~is_modified

\* c is buf with all its trailing newlines removed, followed by one newline
NormalisedFrom(c, buf) ==
    \E k \in 0..Len(buf) :
        LET stem == SubSeq(buf, 1, Len(buf) - k)
        IN /\ \A i \in (Len(buf) - k + 1)..Len(buf) : buf[i] = NL
           /\ stem = <<>> \/ stem[Len(stem)] # NL
           /\ c = stem \o <<NL>>

\* C5: a successful save leaves in the file it wrote the buffer with its
\* trailing newlines replaced by exactly one, and is_modified false.
C5_SaveNormalisesNewlines ==
    [][last'.save = "ok"
         => /\ fs'[last'.savePath].exists
            /\ NormalisedFrom(fs'[last'.savePath].content, buffer)
            /\ ~is_modified']_vars

C5_Witness ==
    /\ last.op = "save"
    /\ last.save = "ok"
    /\ buffer = <<"a", NL, NL>>
    /\ fs[current_file_path].content = <<"a", NL>>

\* C6: maybe_save_changes returns true exactly when is_modified is false
\* (no prompt, no save, nothing changed), or the user chose Discard (no save),
\* or chose Save and the save succeeded; it returns false on Cancel and when
\* the save failed or its picker was cancelled.
C6_GateResult ==
    [][last'.gate # "none"
         => /\ last'.gate = "true"
                 <=> \/ ~is_modified
                     \/ last'.prompt = "discard"
                     \/ last'.prompt = "save" /\ last'.save = "ok"
            /\ last'.gate = "false"
                 <=> \/ last'.prompt = "cancel"
                     \/ /\ last'.prompt = "save"
                        /\ last'.save \in {"failed", "cancelled"}
            /\ ~is_modified
                 => /\ last'.prompt = "none"
                    /\ last'.save = "none"
                    /\ fs' = fs
                    /\ last'.op = "exit" =>
                         UNCHANGED <<buffer, current_file_path, is_modified,
                                     title>>
            /\ last'.prompt = "discard" => last'.save = "none" /\ fs' = fs]_vars

C6_Witness ==
    /\ last.gate = "true"
    /\ last.prompt = "save"
    /\ last.save = "ok"
    /\ last.op = "exit"

\* C7: New, Open and Exit never clear, replace or lose a Dirty buffer unless
\* within that action the user chose Discard or a save succeeded; when the
\* gate returns false the action changes nothing.
C7_GateGovernsNewOpenExit ==
    [][last'.op \in {"new", "open", "exit"}
         => /\ (is_modified /\ (buffer' # buffer \/ destroyed'))
                 => (last'.prompt = "discard" \/ last'.save = "ok")
            /\ last'.gate = "false"
                 => UNCHANGED <<buffer, current_file_path, is_modified,
                                destroyed>>]_vars

(***************************************************************************)
(* Claims about the find engine                                            *)
(***************************************************************************)
\* the pattern the handlers search for
Pattern == Strip(find_var)

\* the same character, ignoring case
CaseEq(x, y) == x = y \/ {x, y} = {"a", "A"}

\* the offsets at which pat occurs in buf, ignoring case
Occurrences(buf, pat) ==
    {i \in 0..(Len(buf) - Len(pat)) :
        \A j \in 1..Len(pat) : CaseEq(buf[i + j], pat[j])}

Least(S) == CHOOSE x \in S : \A y \in S : x <= y

\* C8 as stated: once Find Next has been called more often than the buffer
\* has characters, with no edit or caret move in between, every occurrence
\* at or after the position the caret started from has been returned.
C8_EveryOccurrenceReturned ==
    \A p \in Occurrences(buffer, Pattern) :
        (/\ Pattern # <<>>
         /\ findTrace.start <= p
         /\ findTrace.calls >= Len(buffer) + 1)
            => p \in findTrace.returned

\* C8 as amended: the same for every occurrence at p that no other
\* occurrence overlaps from the left (none starts in the len(pattern) - 1
\* positions before p).
C8_UnoverlappedOccurrenceReturned ==
    \A p \in Occurrences(buffer, Pattern) :
        (/\ Pattern # <<>>
         /\ findTrace.start <= p
         /\ findTrace.calls >= Len(buffer) + 1
         /\ ~\E q \in Occurrences(buffer, Pattern) :
                q < p /\ p < q + Len(Pattern))
            => p \in findTrace.returned

C8_Witness ==
    /\ Pattern # <<>>
    /\ findTrace.calls >= Len(buffer) + 1
    /\ findTrace.start > 0
    /\ Cardinality(findTrace.returned) >= 2
    /\ findTrace.returned = Occurrences(buffer, Pattern)

\* C9: Find Next with a non-empty pattern selects the first occurrence that
\* starts at or after the caret; if there is none, the first occurrence in
\* the buffer (which then starts before the caret, and may straddle it); it
\* reports no match, leaving selection and caret alone, only if the pattern
\* occurs nowhere.
C9_FindNextResult ==
    [][(last'.op = "find_next" /\ Pattern # <<>>)
         => LET occ == Occurrences(buffer, Pattern)
                ahead == {i \in occ : i >= insert}
                Selected(m) == /\ findTrace'.lastMatch = <<m>>
                               /\ sel' = <<m, m + Len(Pattern)>>
                               /\ insert' = m + Len(Pattern)
            IN IF ahead # {} THEN Selected(Least(ahead))
               ELSE IF occ # {} THEN Selected(Least(occ))
               ELSE findTrace'.lastMatch = <<>> /\ UNCHANGED <<sel, insert>>]_vars

\* the only occurrence straddled the caret and Find Next found it
C9_Witness ==
    /\ last.op = "find_next"
    /\ findTrace.calls = 1
    /\ \E m \in 0..Len(buffer) :
          /\ Occurrences(buffer, Pattern) = {m}
          /\ m < findTrace.start
          /\ findTrace.start < m + Len(Pattern)
          /\ findTrace.lastMatch = <<m>>
          /\ sel = <<m, m + Len(Pattern)>>

\* R lists the occurrences of pat in buf that a left-to-right scan meets
\* when it restarts at the end of each match
GreedyRanges(R, buf, pat) ==
    LET occ == Occurrences(buf, pat)
        From(i) == IF i = 1 THEN 0 ELSE R[i - 1][2]
    IN /\ \A i \in 1..Len(R) :
            /\ {q \in occ : q >= From(i)} # {}
            /\ R[i][1] = Least({q \in occ : q >= From(i)})
            /\ R[i][2] = R[i][1] + Len(pat)
       /\ {q \in occ : q >= From(Len(R) + 1)} = {}

\* C10: Highlight All with a non-empty pattern passes to tag_add exactly the
\* ranges of that scan, left to right, each of the pattern's length, and
\* afterwards the find_match tag is on the characters of those ranges and
\* on no other; in "cat bat cat" the ranges of "cat" are [0,3) and [8,11).
C10_HighlightAllRanges ==
    (last.op = "highlight_all" /\ Pattern # <<>>)
        => LET R == findTrace.tagAdds
           IN /\ GreedyRanges(R, buffer, Pattern)
              /\ find_match = {c \in 0..Len(buffer) :
                                 \E i \in 1..Len(R) : R[i][1] <= c /\ c < R[i][2]}
              /\ (buffer = CatBatCat /\ Pattern = Cat)
                    => R = << <<0, 3>>, <<8, 11>> >>

C10_Witness ==
    /\ last.op = "highlight_all"
    /\ buffer = CatBatCat
    /\ findTrace.tagAdds = << <<0, 3>>, <<8, 11>> >>
    /\ find_match = {0, 1, 2, 8, 9, 10}

(***************************************************************************)
(* Claims about cancelled dialogs, the Highlight All loop and the title    *)
(***************************************************************************)
\* C11: a cancelled dialog is a no-op.  When the unsaved-changes prompt or
\* the Save As picker is cancelled, buffer, current_file_path, is_modified
\* and the files are what they were before the action (nothing ran before
\* the dialog); when the Open picker is cancelled they are what they were
\* when the picker was shown; and no error is reported.
C11_CancelIsNoOp ==
    [][/\ (last'.prompt = "cancel" \/ last'.save = "cancelled")
            => /\ UNCHANGED <<buffer, current_file_path, is_modified, fs>>
               /\ last'.error = "none"
       /\ last'.open = "cancelled"
            => /\ last'.atPick = <<[buffer |-> buffer',
                                    current_file_path |-> current_file_path',
                                    is_modified |-> is_modified',
                                    fs |-> fs']>>
               /\ last'.error = "none"]_vars

\* Save As on a document that has a path, cancelled in the picker
C11_Witness ==
    /\ last.op = "save_as"
    /\ last.save = "cancelled"
    /\ current_file_path # None
    /\ is_modified

\* C12: the loop of Highlight All ends.  Every iteration either finds no
\* match and leaves the loop, or tags a match that begins at or after start
\* and moves start to its end, strictly forward; no run makes more
\* iterations than the buffer has characters, plus one; and when the loop
\* has ended the tag_add calls are those of the handler run in one piece.
C12_HighlightLoopEnds ==
    [][last'.op = "highlight_iter"
         => /\ findTrace'.iters <= Len(buffer) + 1
            /\ \/ /\ ~findTrace'.hlRunning
                  /\ findTrace'.tagAdds = findTrace.tagAdds
                  /\ findTrace'.tagAdds = highlight_all(App, find_var).tagAdds
                  /\ findTrace'.iters = highlight_all(App, find_var).iters
               \/ /\ findTrace'.hlRunning
                  /\ Len(findTrace'.tagAdds) = Len(findTrace.tagAdds) + 1
                  /\ LET r == findTrace'.tagAdds[Len(findTrace'.tagAdds)]
                     IN /\ r[1] >= findTrace.hlStart
                        /\ findTrace'.hlStart = r[2]
                        /\ findTrace'.hlStart > findTrace.hlStart]_vars

\* a run that needed the most iterations: every character is a match
C12_Witness ==
    /\ last.op = "highlight_iter"
    /\ ~findTrace.hlRunning
    /\ Len(buffer) >= 2
    /\ findTrace.iters = Len(buffer) + 1

\* C13: the window title reflects the session: it names the basename of
\* current_file_path, or "Untitled" when no path is set, and ends with "*"
\* if and only if is_modified is true.
C13_TitleReflectsSession ==
    title = [filename |-> IF current_file_path # None
                          THEN Basename(current_file_path) ELSE "Untitled",
             marker |-> IF is_modified THEN "*" ELSE ""]
====
